# A verification of 3gent's bridge, relay and 3DS client in TLA+

3gent lets a Nintendo 3DS talk to a coding agent. A *bridge* (TypeScript,
`src/bridge`) runs beside the agent; the *3DS client* (C, `src/client-3ds`)
asks it for tasks, keeps one pushed connection to it, shows the events of a
task, sends commands (a text, the answer to an approval, an interrupt), streams
recordings and photos, and is paired by a QR code. A *relay* carries the
connections when the two are not on one network. This directory holds TLA+
modules of the protocol core of these programs, the TLC configurations that
check them on small instances, and TLAPS proofs for every value of the
constants.

## 1. The system

Status and reasons are also in `PROJECT.json`, one entry per component.

| component | state it keeps | operations | what makes it correct |
|---|---|---|---|
| event store (`event-store.ts`) | per session: a bounded history, the next sequence number, a byte counter | `append`, `after`, `latestSequence`, `subscribe` | the history is a gap-free window ending at the newest event, within both limits; a replay is exact or refused |
| command registry and execution (`command-registry.ts`, `server.ts`) | remembered acknowledgements (256), promises in flight | `#executeCommand`, `remember` | a repeated command is answered, not run again; every caller is answered |
| pushed link, bridge side (`push-server.ts`) | per connection: bound session, send cursor, writability, a command in process | hello, ping, command, `#flushEvents`, `#onDrain`, `#sendResync`, `#fail` | every event is written once and in order; a slow peer costs bounded memory |
| pushed link, 3DS side (`network.c`, `main.c`) | `push_connection`: phase, output, one frame slot, one command slot; the event cursor | `pump_push`, `push_extract_frame`, `push_queue_command`, `handle_push_frame`, start/stop | no event missed silently across reconnects; a command is retried until it is answered |
| Codex adapter (`codex-agent-adapter.ts`) | active turn per thread, pending approvals and their timers | submit, approve, interrupt, notifications, shutdown | one turn at a time, one decision per approval |
| JSON-RPC client (`codex-app-server-client.ts`) | pending requests, the child process | request, respond, late answers, failure | every request settles once, late answers are ignored |
| fake agent (`fake-agent.ts`) | the script of a turn | timed events, approval, interrupt | stands in for the adapter |
| HTTP API and media (`server.ts`, `photo.ts`, `wav.ts`, `transcriber.ts`) | uploads in progress, pending photos, transcriptions | upload, attach, transcribe | what is saved is whole, a capture is used once |
| pairing, bridge side (`pairing.ts`, `index.ts`) | the device file, its copy in memory, one offer | offer, redeem, verify, revoke in a second process | a code pairs once, a device that is revoked is refused at its next request |
| pairing, 3DS side (`pairing.c`, `qr_scanner.c`, `camera_capture.c`) | the saved record, a streamed camera, a worker thread with its image and payload | scan, type, exchange, save, forget | the screen says what the card holds; a decoder's image is its own |
| relay (`relay.ts`) | per channel a queue of uplinks and one of clients, pairs, pipes | queue, pair, activate, time out, close | bounded queues, streams are not mixed, nothing is forgotten |
| reverse tunnel (`reverse-tunnel.ts`) | slots with a relay socket, a local socket and a timer | start, connect, hand over, reconnect, close | a slot has one connection or one timer |
| 3DS requests and task list (`network.c`, `main.c`, `ui.c`) | one control transaction with its socket, the list and its windows | refresh, open, start, task manager, rail | a response goes to whoever asked; the open row is the open task |
| 3DS agent screen (`main.c`, `ui.c`) | turn, approval, transcript, photo, recording, stylus, the command kind | events, keys, action bar, stylus, leaving a task | it shows the open task and acts on nothing else |
| 3DS audio and photo transfer (`network.c`, `microphone.c`, `main.c`) | the media transaction, a ring of samples, the upload loops | record, drain, stop, upload, leave | an upload is whole and ends |
| 3DS drawing, CLI, QR rendering | text and pixels | draw, parse options | no protocol state |

How they interact. The agent adapter and the capture handlers *append* to the
event store; the store calls every subscriber, that is, every pushed connection
bound to the session, before `append` returns. A connection that reads a
`command` line calls `#executeCommand`, whose promise settles when the agent's
work does; the answer goes to every connection or HTTP request that awaits it.
On the 3DS one thread runs `network_pump()`, `update_push_link()` and the keys
in a loop; the pump puts at most one received frame into a slot, which the
loop consumes. The same thread owns one control transaction and one media
transaction, which its loops share; only the QR decoder has a thread of its
own. With a relay, each of these connections runs 3DS - relay - tunnel -
bridge, and a slot of the tunnel is used up by every connection it carries.

What is hard here: connections die unnoticed and their frames live on; the
client repeats commands over other connections; a command outlives the
connection it came from; replay, drain and append move one send cursor; both
sides keep bounded histories and forget; the bridge's state is in memory and
restarts empty while the client's cursor survives; the error frame names no
command; a transaction that was cancelled leaves an answer in its socket; a
key is pressed for what was on the screen a moment ago; a ring of samples is
overwritten while it is read; two processes write one device file, and one of
them learns of the other by a stamp it takes a moment too late; a screen is read
from under another one; the relay
and the tunnel each own two sockets that end at different times. The `hazards`
list of `PROJECT.json` gives the lines.

## 2. The modules

| module | models | extends / instantiates |
|---|---|---|
| `Endings` | one definition: a sequence ends with another | |
| `EventLog` | the history of one session as pure operators: append with its eviction loop, cursor check, replay | |
| `EventStore` | the store: several sessions, `Publish`, and a history of everything appended | `EventLog`, `Endings` |
| `CommandExecution` | `CommandRegistry` and `#executeCommand` | `Endings` |
| `AppServerClient` | the JSON-RPC client of the Codex app-server as pure operators on one record | |
| `CodexAdapter` | the adapter's sessions, turns and approvals, the order of promises and lines, and the app-server as environment | `AppServerClient`, instance of `AgentCall` as its abstract specification |
| `AgentCall` | what a call of the agent may do, the environment of one run in `CommandExecution` | |
| `PushSocket` | class `PushConnection` and the frames, as pure operators on one socket | `EventLog` |
| `PushLink` | the whole link: client state machine, frames in transit, sockets, event log, command execution | `PushSocket`, instance of `CommandExecution` whose callers are the connections |
| `ControlSlot` | the 3DS's one control transaction and its keep-alive socket, as pure operators | |
| `TaskList` | the task list, the rail's and the task manager's window of it, as pure operators | |
| `ClientTasks` | the loops of the 3DS that list, open and start tasks, and the bridge that serves them | `ControlSlot`, `TaskList` |
| `AgentView` | the agent screen: events, keys, stylus, action bar, recording, approvals, the photo's screens over it, and the bridge's logs | |
| `Microphone` | the sample ring between the microphone's service and the client, as pure operators | |
| `MediaStream` | recordings and photos: the loops, the media transaction, its socket, the bridge's handler | `Microphone` |
| `Viewfinder` | the streamed camera and the QR scanner with its worker thread | |
| `PairingStore` | the bridges' device stores, their files, and the process that revokes | |
| `Pairing` | scanning or typing a code, the exchange, the saved record, the requests and the pushed link that use it, switching off | `Viewfinder`, `PairingStore` |
| `Relay` | one channel of `RelayService` as pure operators: queues, pairs, pipes | |
| `RelayTunnel` | the relay, the slots of the tunnel, their sockets, the 3DS and the bridge's servers at the ends | `Relay` |
| `MC...` | instances for TLC; `MCBridgeState` and `MCClientTransactions` hold two components each that share no state | |
| `CommonLemmas` | lemmas several proofs use | `Endings` |
| `BridgeStateProofs` | proofs about what the bridge keeps | `EventStore`, `CommandExecution` |
| `TransactionProofs` | proofs about the two transactions of the 3DS | `ClientTasks`, `MediaStream` |
| `PushLinkProofs`, `CodexAdapterProofs`, `PairingProofs`, `AgentViewProofs`, `RelayProofs` | proofs | the module they are named after (`RelayTunnel` for the relay) |

Two pairs of components have their proofs in one module, which extends both;
therefore `EventStore` and `MediaStream` call their parts `StoreInit`,
`StoreNext`, `StoreSpec` and `MediaInit`, `MediaNext`, `MediaSpec`.

`EventStore` and `PushLink` share the log's operators; `PushLink` composes the
actions of `CommandExecution` with the socket they answer on. `AgentView` and
`ClientTasks` take the link as what `PushLink` shows it to be: the events of one
session in order, or a resynchronisation. Operators whose comment begins
"A faulty" are not part of any specification: they are the plausible bugs with
which each property was shown to be able to fail.

### EventStore and the code

`append()` is `Publish`: `AppendEvent` numbers the event, adds it and runs the
eviction loop. The loop `while (length > limit || bytes > limit) shift()` is
stated by what it does: `ShiftCount` is the least number of shifts after which
both limits hold. `CursorCode` and `EventsAfter` are the two halves of
`after()`. An event is its sequence number, type and encoded size; its text is
left out. Input validation that throws before any change of state is left out.

### CommandExecution and the code

`registry` is the insertion-ordered Map, `inFlight` the keys of the in-flight
map, `waiting[k]` the promise a caller awaits. The three branches of
`#executeCommand` are `AnswerFromRegistry`, `JoinInFlight` and `Start`. The
awaited `action()` belongs to the agent: `fresh` and `done` count its runs
before and after their effect, and `Perform` is the effect. The promise settles
in one of four ways: `Succeed`, `Fail`, `FailLate` after the effect, and
`GiveUp`, after which the run is `adrift` and may take effect all the same
(`PerformAdrift`). The last two are real: a JSON-RPC request may time out
although the app-server has carried it out or still will, and a step after the
turn was started may fail. `Restart` loses everything that is in memory, and the
runs that did not reach their effect. `performed`, `accepted`,
`order`, `excused` and `acked` are history variables.

### CodexAdapter and the code

`record`, `approvals`, `startedTurns` and `terminalTurns` are the adapter's
fields; `client` is the JSON-RPC client: its state, whether stdin can be
written, the pending requests, the lines the child has not read, and `settled`,
the promises whose awaiting code has not run yet. A job is one call of the
adapter. What makes this component hard is the order of its steps, so the model
keeps it: the lines of a chunk are handled one after the other (`Reads`,
`midChunk`), the code behind an `await` goes on after the chunk in the order in
which the promises settled (`GoesOn`), and timers and new calls run only when
nothing is settled (`Idle`). A text that must first open its session goes on
behind everything settled meanwhile (`GoOnLoaded`). A turn has the name of the
text that asked for it. `bridge = "crashed"` is an exception in a timer or in
`shutdown()` that nobody catches.

The app-server is external and modelled as it is used: it reads its stdin in
order, runs one turn per thread, announces a turn before it ends it, answers
turn/start before, with or after those announcements, may refuse any request,
may ask for approvals in a running turn, ends no turn that waits for one unless
it is interrupted, and may die at any moment. Ids of requests are replaced by
the call and its method. Left out: the text and diff events of a turn, labels,
summaries and choices (the user's answer is always "accept"), the initialize
handshake, requests refused for their kind.

`AgentCall` states what `CommandExecution` assumes of each run, and
`TextsAreAgentCalls` shows that every text is one, under the mapping `Stage`:
a text that failed is *adrift* exactly while its turn/start line waits in the
pipe of a living child.

### PushLink and the code

`link` is the client's `push_connection`. `phase = "waiting"` merges the retry
timer, the idle phase and a connection attempt under way, in which nothing else
can happen to the link; `written` is a history field. The client's actions are
pieces of one `pump_push()` call (`Connect`, `SendOutput`, `PrepareCommand`,
`PreparePing`, `Extract`, `ReadEnd`, `LoseConnection`), of `update_push_link()`
(`HandleFrame`) and of the keys (`Submit`, `RestartLink`, `Attach`). The code
runs several of these pieces in one call; letting others run between them only
adds behaviours that a slower network could show. The bridge's actions are the
callbacks of its event loop, each run to completion: `ReadHello`,
`RefuseHello`, `ReadPing`, `ReadCommand`, `Execute`, `Publish`, `Drain`,
`NoticeLeft`, `DropPeer`, and `RestartBridge`.

Each connection has a queue of frames in each direction. `HighWater` frames are
what the buffers between the programs hold: at that length a write returns
false, `blocked` is set, and a drain comes once the queue is shorter. A
connection whose 3DS end is gone may still deliver what it carries *to* the
bridge; nobody reads the other direction any more. Either side may notice a
loss first, or late.

Abstractions in `PushLink`:
- frames are whole: split and coalesced chunks, oversized and malformed lines
  and partial writes are not modelled (the code buffers until the newline);
- a paused socket reads nothing. In the code, lines that were already in the
  chunk being processed are still handled after the pause;
- a pump that prepares output still reads before the next pump sends it, so
  `Extract` may run with output buffered. The model lets it run more than once
  then; a pump that finds its socket full does not read;
- time: the retry delay, the idle timers and the ping timer may run out at any
  moment when they are armed;
- events in `PushLink` all have size 1 and the byte limit does not bind there;
  the byte limit is the subject of `EventStore`;
- the screen is `shown`: the positions in the event stream that the response
  area has shown since it was last cleared.

### ControlSlot, TaskList, ClientTasks and the code

`ControlSlot` is `control_transaction` with `control_socket`: `BeginRequest`
(`begin_control_request()`), one step of `pump_control()` (`Pump`), `Cancel` and
`Consume`. The socket is kept alive, so that `up` and `down` carry the requests
and answers of transactions that are over; an answer names the request it is
for, which the real one does not. `TaskList` is what `apply_session_list()`,
`attach_to_current_session()` and the two windows of `ui.c` compute. In
`ClientTasks` an action is what one frame of a loop does about one key, or one
`network_pump()`: `screen` is the loop, `wait` the request that
`wait_for_control_request()` blocks for, `refreshing` the list that the agent
loop reads in the background. The bridge serves requests, starts tasks,
publishes and restarts; it lists its tasks in the order of its Map.

### AgentView and the code

The variables are those of `run_agent_loop()`: `view` holds the turn, the
pending approval with its arming time, a transcript and a photo; `recording` the
task it is for; `stylus` the two touch flags; `kind` `push_command_kind`;
`pending` the command of the link. `ApplyEvent` is `handle_protocol_event()`,
`Resync` the snapshot after `resync.required`, `Key`, `Contact` and `Lift` a key
or a contact with what `ui_actions_for()` and `ui_hit_test()` make of it,
`OpenTask` the change of task. The bridge adds events to its logs, executes the
command of the link, stores a photo and turns a recording into a transcript.
Events that change only what is read are left out.

A request that blocks the loop is one action. The photo is not: after the shot
(`PressL`), `capture_and_upload_photo()` has two loops that read the link and
draw a screen of their own, so `screen` says which of them runs, and events,
approvals and the arming of an approval come under each. The loop of the review
looks at keys and stylus, that of the upload at START only. `TimePasses` arms an
approval as the code does, by its age, whatever was drawn. What was drawn is
kept in the history field `view.shown`: an approval that arrives while the
screen of a photo is up, or that the keyboard of a transcript covers before it
is armed, is *behind*, and is taken for read only once the main screen has been
up for as long as the arming time (`Lingers`). While a recording runs the
approval is drawn on the top screen, so that counts as shown. The task manager
and the start of a task end in `attach_to_current_session()`, which empties the
screen, or fail and leave it; an approval that is pending beyond them was on the
main screen before. Sleep and the HOME menu, which age an approval in the same
way as the screen of a photo, are not modelled.

### Microphone, MediaStream and the code

The unit is a block of samples. `Microphone` is the ring: `written` grows with
the service, the client knows its own offset and the service's, and `lapped`
remembers that the service overwrote what nobody had read. `MediaStream` has the
recording loop (`rec`), the photo loop (`photo`), `audio_transaction` with its
buffer, phases and deadlines, one socket that is prepared ahead, and the
bridge's handler, which saves a body only when it is whole and lets one upload
of a kind run at a time.

### PairingStore, Viewfinder, Pairing and the code

A machine's store is the file, the devices in memory, the code on offer, the
stamp that was loaded, and the step at which a running call is. Calls of one
store do not interleave, as Node.js runs them, but the operator's process
(`--revoke-device`) is another process: it loads in one step, writes in another,
and may write between any two things a call of the bridge does to the file.
`Load` reads the file and `Stamp` takes `#fileStamp()` after it; `Persist` writes
it and `Stamp` takes the stamp after that; between the two, and between the
answer of `verifyToken()` and the write of `#touch()`, the store is at a `step`.
While the operator's process is not between its load and its write, nothing can
come between, and `Settled` takes the steps at once. A call that was killed on
the way is as if it was killed after it. `overtaken` is history: a write of the
operator's came between what a call read or wrote and the stamp it took, which
the bridge then takes for that of its own devices.

Of the stamp `FileStamp` keeps the size of the file, the number of its devices,
and leaves the time of modification out, which can only make the bridge miss
more than it does. In this setting it misses nothing else: the operator's write
takes a device out of what it read, all of which is still in the file, so that
the file gets smaller, and every other write is stamped by the bridge itself.
(A number in the file may get longer by a last-seen time, but the bridge that
writes it stamps it.) The rewrite of the same millisecond and size of which
`pairing.ts:146` speaks is therefore not met by a revocation; the write between
read and stamp is. An idealisation remains: each read and each write of the
whole file is one step. A file that is read half-written is no JSON, which
throws.

A key is the number of the device it was issued to.
`Viewfinder` has the camera's service, the frame loop and the
worker of `qr_scanner.c` with its one-shot event, lock and image; `Sights` is
what the camera may see. `Pairing` composes them with the start screen, the
exchange over the control transaction, the file on the SD card, requests of a
session, the pushed link, and a console that is switched off at any time. The
link goes to the machine of the record with its key: its hello is authorised
(`Hello`), its commands are not (`HandleCommand`); what else it does is
`PushLink`'s subject. Requests on connections that were closed may still be
served (`strays`).

### Relay, RelayTunnel and the code

`Relay` is one channel of `RelayService`; the other runs the same code on its
own queues. Each connection attempt of the tunnel is one of `Dials` with the
relay's socket at the tunnel (`near`), its other end (`far`) and the socket to
the bridge's server (`local`); a connection of the 3DS is one of `Clients` with
its two ends (`here`, `there`). What the code does in one callback is one
action: a destroyed socket is *ending*, and its close event, which runs the
listeners the code has registered by then, is an action of its own
(`NearCloses`, `LocalCloses`, `FarCloses`, `ClientCloses`). So the two sockets
of a slot may close in either order and each schedules a reconnect, and a
client may close between its pairing and the `connected` line, with nobody left
to hear of it. Between `ready` and the pipe the tunnel has taken its listener
off a stream that goes on flowing, and loses what comes (`LocalConnect`). A client
that waits is not read, so its end is noticed only if it sent nothing
(`ClientEnds`). An error of a socket without a listener ends the relay
(`ResetWaiting`).

Abstractions: a chunk is the unit of data and carries who sent it; the server
answers each chunk it is sent; lines arrive whole; the token is right. Timers
may run out whenever they are armed, but for one thing: the close events of
sockets that were destroyed together come before the 250 ms timer they start
(`CloseDue`).

## 3. The runs

Deadlock is checked in every run about the link, the task list, the screen, the
media transfer and pairing. It is off for the bridge's store and registry, for
the adapter and for the relay, which really stop: the store when `MaxSequence`
events are published, the registry when no caller asks any more, the adapter
when every job is settled, or the bridge is closed or has crashed, the relay
when the attempts are used up and every socket is closed.

`bridge_state` and `client_transactions` each check two components that share no
state in one run: a behaviour moves one of them while the other rests in its
initial state, so that what is explored is both instances side by side and
nothing of their product.

| run | instance | question |
|---|---|---|
| `bridge_state` | store: 2 sessions, limits 3 events and 5 bytes, sizes 1, 3, 4 and a refused 5, 5 events each; registry: 2 callers, 3 commands, room for 2, 4 runs, 1 restart | is the window gap-free, each replay exact, each eviction needed? one run at a time, no early acknowledgement, an account of every second effect, every caller answered |
| `adapter_turns` | 1 session, known or not, 2 texts, 1 opening, 2 pending requests, 2 remembered turns | is a turn started and completed once, is the active turn known, is a text an agent call? |
| `adapter_approvals` | 1 session, 1 text, 1 interrupt, 2 approvals, 1 notification, 1 pending request | one decision per approval, none lost, every turn ends |
| `push_events` | 2 connections, no commands, 4 events, history 2, high water 2, 1 loss, 1 stop of the link by the user | no silent gap, events reach the 3DS |
| `push_commands` | 2 connections, 1 command, 1 event of type `error`, 1 loss, 1 restart of the bridge | acknowledgements are true; a written command is settled |
| `client_transactions` | control: 2 tasks, 1 at the start, a list of 2 rows, windows of 1, 1 event per task; media: a ring of 4 blocks, recordings of 5, a buffer of 3, photos of 4, 3 attempts | is an answer the one to the request, is the open row the open task, does every wait end? is an upload whole, is what is called accepted saved, does it end? |
| `client_view` | 2 tasks with logs of 4 and 1 events, 1 approval, 1 transcript, photos | does the screen show the open task, does anything reach another one, was an approval as old as it must be, and on the screen unless a photo's screens or the keyboard covered it? |
| `pairing` | 2 machines, 2 codes, 1 revocation, 1 mistyped code or failed write; the camera sees our code, alone or behind a foreign one | one key per code, known where it is used, refused at the next request or hello once revoked; is the user told the truth; is the decoder's image its own? |
| `relay` | 1 connection of the 3DS with 2 chunks, queues of 1, a tunnel of one slot that is started twice, 2 attempts, 1 fault | are streams whole, is every socket somebody's, has a slot one connection or one timer, is anybody kept? |
| `push_ping`, `view_unseen`, `pairing_revoked` | the smallest that shows it; the instances of `client_view` and `pairing` | what a document or a comment says, and the code does not do (section 6) |

Why these bounds. A history of 2 under 4 events lets a cursor expire by one and
by several, and lets a replay meet an eviction. With a high water of 2, ready
plus one event already block, so every event can be the one that blocks and a
drain can find several waiting. Two connections suffice for a copy of a command
on an abandoned connection to be read after the copy on the new one; the client
never has more than one open, and a third only repeats the second. With sizes 1,
3 and 4 against a budget of 5 bytes and 3 events, one append evicts none, one,
two or three events, and either limit can be the one that does.
Three commands against a registry of 2 is the least at which something is
forgotten; 4 runs let the forgotten one run again. In the adapter, two texts and
an opening are the least that meet at one session and fill the two pending
requests, and two approvals the least of which one comes while the other waits.
The adapter remembers as many ended turns as there are texts: a response that
256 later turns overtake within its 15 s time-out is excluded.
For the control transaction a window of one row against two tasks hides a row, a task
started by the user comes behind the one that is there, and a restart turns them
round. The logs of `client_view` hold an approval with its resolution between
the two ends of a turn, and one event in the other task that must not be taken
for one of these. An approval that arrives under the screens of a photo fits;
one that the keyboard of a transcript covers (`PressY`) would take a log of five
events, beyond what the run has time for, and is covered by the theorem only.
For the media transaction six blocks are spoken against a ring of four and a
longest recording of five, so that the ring wraps, is lapped and is cut off; the
threshold of two against a buffer of three leaves a remainder in it. In
`pairing` two machines with a code each are the least that can be confused, and
`MCBound` leaves out the viewfinder once the operator's process has run: codes
are typed from then on, which begins the same exchange. In
`relay` the uplink of a tunnel that was closed meets the one of the tunnel that
was started after it at the relay, where there is room for one; the second
attempt is the first one's successor in the same slot, or the next tunnel's. One
client means that streams of two clients are not mixed by any run; the theorems
about the relay hold for any number of them.
`MaxStarts`, `MaxLosses`, `MaxResets`, `MaxRestarts`, `MaxSequence`, `MaxEvents`,
`MaxWritten`, `MaxAttempts`, `MaxCodes`, `MaxRevokes`, `MaxMistakes`, `MaxPools`,
`MaxDials`, `MaxChunks` and `MaxFaults` bound the counters and are named in the
guards they appear in.

### Fairness

`CommandExecution`: each command's run eventually takes effect or settles. Every
call of the adapter either answers or times out after 15 s
(`codex-app-server-client.ts`), which `TextsAreAgentCalls` shows for texts.
`CodexAdapter`: the event loop reads lines, runs what has settled and fires the
timers of requests and approvals; the app-server reads its stdin and ends a turn
that waits for nothing. Nobody has to answer an approval. `PushLink`: the client's loop runs every frame,
so its pump, its ping timer and its consumption of the slot are weakly fair
each; the bridge's event loop eventually serves every socket that has something
for it; commands settle as above. `ClientTasks`: `pump_control()` runs every
frame and each of its phases has a deadline; the waiting loop looks at the
result. The bridge need not answer. `MediaStream`: the pump and the two upload
loops run every frame. `Pairing`: the worker and the thread that joins it are
scheduled. `AgentView`: nothing is fair, it has no liveness property.
`RelayTunnel`: both event loops serve every socket, every armed timer fires, the
3DS reads or sees the end of what it has open, and the bridge's servers end a
connection on which nothing comes (`server.ts:820`, `push-server.ts:405`). The
last is what ends, in the model, the uplink of a client that closed before it was
piped. The code is quicker: if the end of such a client was emitted,
`client.pipe(uplink)` (`relay.ts:227`) ends the uplink at the next tick. The
model does without it, so that `NobodyIsKept` holds of the harder case.

Nothing is assumed about the environment: no submission, publication, loss,
restart, key, upload or revocation has to happen, and losses are
finite because they are bounded. `EventsArrive` is about what happens once
nothing more is published or lost, and says nothing of a network that keeps
failing.

## 4. What is proved

`BridgeStateProofs` about `EventStore` (for every set of sessions, every pair of limits and every
length of history, from `HistoryAssumption` and `StoreAssumption`):
- `StoreCorrect`: type correctness, `WindowIsSuffix` and `ByteBudget` (the byte
  counter is exact and within its limit) are invariants. Their conjunction is
  inductive. The core is `AppendKeepsWindow`:
  the running sums of sizes are monotone (`RunningBytesType`), so the eviction
  loop stops before it shifts out the newest event (`ShiftCountKeepsNewest`),
  what it keeps is an ending of what was there (`EvictFacts`), and the sum of a
  suffix is the difference of two running sums (`RunningBytesSuffix`). Here the
  assumption `MaxEventBytes <= HistoryBytesLimit` is needed: without it one
  large event would empty the history. The shipped constants satisfy it (641
  bytes against 128 KiB).
- `ReplayExact`: from a window, `WindowReplay` shows what `after()` returns for
  every cursor and limit.
- `EvictionMinimal`: the action property, from the minimality of `ShiftCount`.

`BridgeStateProofs` about `CommandExecution` (for every set of callers and
commands and every capacity, from `ExecutionAssumption`):
- `SingleExecution`: `SingleRun` and `WaitersHaveARun`;
- `ExecutedOnce`: `AtMostOnce` and `RegistryIsRecent`;
- `NoEarlyAcknowledgement`: `AckMeansPerformed`.

`AtMostOnce` is not inductive: that `performed[c]` is small says nothing of
whether the bridge knows about the effect. The inductive invariant adds
`Ledger`, an account for each command: every effect but the excused ones is
vouched for by the run in `done` or by the entry in the registry, and never by
both, because a command in flight is not in the registry. `Start` needs neither
to vouch, `Perform` moves the account into `done`, `Succeed` from there into the
registry, and whatever takes an entry away (`FailLate`, a full registry,
`Restart`) or happens behind the bridge's back (`PerformAdrift`) writes an
excuse.

`PushLinkProofs` (for every number of connections, commands and events, every
history limit and buffer size, from `LinkAssumption`, `HistoryAssumption` and
`HighWaterAssumption`):
- `AcknowledgementsAreTrue`: `AcksAreTrue`. The inductive invariant says it of
  every frame there is, on its way or in the client's slot (`TrueFrames`), and
  of the registry and the runs in flight that acknowledgements are made from
  (`Vouched`).
- `TransitContinues` and `GapsAreMarked`: `TransitIsContiguous` and
  `NoSilentGap`, both as long as `restarts = 0`. The condition is not for the
  prover's sake: after a restart of the bridge the properties are false of the
  code (section 6, the cursor that the new log has outgrown), and the run that
  checks them has no restarts. The inductive invariant is `Types` with
  `StreamInv`: what is retained is numbered without a gap (`Contiguous`), and
  the frames on their way on the connection the client reads, with the frame in
  its slot, continue at its cursor up to the connection's send cursor, or wait
  behind a resync (`Streaming`). `#flushEvents` is a loop, so `SendEvents` is a
  recursive function, and what it writes is shown from one step of it.
- `LinkExecutesCommands`: the bridge's part of every step is a step of
  `CommandExecution` with the connections as callers, or leaves its state
  alone. So what `BridgeStateProofs` shows of commands holds of the link.

`CodexAdapterProofs` (for any sessions, texts, approvals and limits, from
`PendingAssumption` and `AdapterAssumption`):
- `TypesHold`: type correctness, with the bounds on pending requests and on
  remembered turns.
- `ResolvedAsDecidedHolds`: `ResolvedAsDecided`;
- `ApprovalsAreNotLostHolds`: `ApprovalsAreNotLost`;
- `TurnsAreBracketedHolds` and `KnowsTheTurnHolds`: `TurnsAreBracketed` and
  `KnowsTheTurn`, of every behaviour that is always `Timely`: code that awaited
  turn/start and goes on after its turn has ended finds the turn among the ended
  ones that the adapter remembers (256 in the code). This is a condition of the
  code, not of the proof: with a `TerminalLimit` of 1, TLC finds a response
  that the ends of its own and of a later turn have overtaken.
- `FewTurnsAreKept`: both, without that condition, when there are no more texts
  than turns are remembered, as in the run.
- `CallsAreMadeOnce` (`JobsInv`) and `TurnLinesHold` (`TurnLines`): what the
  proofs about the turns rest on, of every behaviour.
- `TextsMoveAsCalls`: every step of the adapter and its environment is, under
  the refinement mapping of `TextsAreAgentCalls`, a step of `AgentCall` or
  leaves it alone, and the initial states are its initial states. This is the
  environment that `CommandExecution` assumes of an agent. That every call
  settles is left to TLC.

The properties of approvals are not inductive. `ApprovalsInv` follows an approval through the programs:
a question that is still a line was not shown, one that was shown was asked
once, an answer that is still a line is the one that was published
(`ApprovalLines`, `AskingInv`, `ShownInv`, `ShowsInv`, `WaitsInv`). What makes
it hold when a turn ends is `EndsInv`: of the ends of turns that the adapter has
not read yet, the next one of the session that comes after a question is that of
the question's own turn. A shutdown and a failure of the child answer or forget
the whole set of approvals at once, so the steps for sets have lemmas of their
own.

For the turns, `JobsInv` counts: a text waits for one request or one outcome,
and the request for its turn is in the pipe once and only before the turn was
carried out. `TurnLines` says what the lines not yet read tell: a start or an
end belongs to a turn that was carried out and whose end was not published, the
end comes once and after the start, and what runs was announced or will be. With
these, a turn is among `startedTurns` exactly between its two events
(`Published`), and, as long as the client listens, the last unread line about a
session says what runs in it; if there is none, its record does (`KnownTurns`). For the agent calls, `AnswersCarried` follows
a successful answer back to the app-server: what it answers, owes or has
answered with success was carried out. A text and an interrupt are different
jobs (`AdapterAssumption`), so that the success of one is not taken for the
other's.

`PairingProofs` (for any machines, any number of codes, revocations and
mistakes, and anything the camera may see, from `PairingStoreAssumption`,
`PairingAssumption` and `SightsAssumption`):
- `CodesAreSpentOnce`, `RecordsAreKnown`, `ScreenMatchesCard`,
  `SessionsReachTheirMachine`: the four state properties of the run. The
  inductive invariant is `Inv`. Its part `Stored` says that a device is in the
  file, revoked, or dropped by the operator's write, and that a code that was
  exchanged is on no offer. `Client` says the same of the key in the record, in
  the answer that has arrived and on the card.
- `RevokedAreRefused`: `AdmittedIsListed`, of the requests and of the hello of
  the pushed link, for every interleaving of the two processes. What makes it
  hold is `FilesAreOurs`: a file lists nothing that the bridge does not have in
  memory (`Consistent`); between calls it is no larger than the stamp, and equal
  to it only if it is what is in memory or the stamp was overtaken; and what the
  operator's process has loaded is still listed, so that its write is strictly
  smaller. "Listed" is said of the moment at which the stamp is compared. The
  theorem excuses a stamp that was overtaken and says nothing of the commands of
  a link that has said hello: there the code does what section 6 describes.
- `ImageIsNotReplaced`: `ImageIsStable`, from `ScannerOK`: while the worker
  decodes, `busy` keeps the frame loop from submitting.

`AgentViewProofs` (for any tasks, approvals, transcripts and lengths of logs,
from `AgentViewAssumption`):
- `ScreenIsTheLog`: `ShowsTheOpenTask`. What the screen has after each event is
  what the log says up to the cursor; the induction is over the step, for an
  event and for a snapshot. `LogsTell` is needed for the snapshot: what the
  bridge answers about a task's agent is what its log says.
- `OrdersBelongToTheTask`: `NothingFollowsTheUser`;
- `ApprovalsWereRead`: `ApprovalsAreReadFirst`, which needs `Timed`: an armed
  approval was on the main screen for its time, or is *unread* because another
  screen was up. That the second case is met is the finding of `view_unseen`;
  the theorem says that there is no third one.

`RelayProofs` (for any slots, clients, limits of the queues, attempts and faults,
from `RelayAssumption` and `TunnelAssumption`):
- `SlotsHoldOneHolds`, `NoSocketIsForgottenHolds`, `NobodyWaitsForAWaiterHolds`.
  The inductive invariant is `RelayTunnelInv`. It adds `AttemptsAreCounted` (an attempt that was not made
  yet, and a slot of a tunnel that was not started, are not in use) and
  `WaitersWereHeard` (what waits has greeted or was accepted, what is not
  connected has no socket at the relay), so that nothing is queued twice.
  A step is one of three kinds: the slots do not notice it (`SlotsKept`), the
  relay does not notice it (`RelayKept`), or sockets of the relay go and what
  stays open keeps its queue or pair (`RelayFades`); the steps that begin or end
  an attempt and the two that queue a socket have lemmas of their own. For the
  queues, `LiveQueue`, `RemovedEntry` and `TriedPair` say what `#takeLive`,
  `removeEntry()` and `#tryPair` keep, and `LiveTail` why the newcomer cannot
  leave two that are alive in both queues.
- `StreamsArePairedHolds`: `StreamsArePaired`. The invariant needs to remember
  what the programs forget. `StreamsInv` says that there is a matching of
  attempts and clients that holds every pair the relay ever made (`Matching`),
  along which the buffers between the two ends are pieces of one stream in order
  (`Joined`), and that what is in no pair has said and heard nothing
  (`FreshUplink`, `FreshClient`). A pair that is gone stays in the matching, so
  that neither of its ends can be paired again.

`TransactionProofs` about `ClientTasks` (for any tasks the bridge has or comes to
have, any limit of the list and any windows of it, from `ClientTasksAssumption`
and `TaskListAssumption`):
- `SlotHasOneOwner`: `SlotIsOwned`; `AnswersAreTheirs`: `AnswersMatch`;
  `RailIsRight`: `RailShowsTheOpenTask`; `TasksTyped`: the types, with the limit
  of the list.

None of them is inductive: an answer has no name in the code, and a loop takes
what the transaction holds for the answer to its own request. The invariant says
what is on the socket (`SlotOK`): nothing unless a request was sent, and then
that request, or one answer the bridge may give to it (`Grants`), with at most
the end of the connection behind it. It holds because whatever abandons a
request that was sent closes the socket: `Cancel` of one in progress, and a
failure. A transaction that is not in progress has a quiet socket (`Quiet`),
so the next request on a kept connection meets no older answer. `Owned` ties
the transaction to the request that is waited for or to the refresh. For the
rail, the rows are distinct tasks because the bridge's Map holds each once (its
order stays injective through `Added` and every restart), and after each new
list `ApplyRows` finds the open task again by its session, whatever the order.

`TransactionProofs` about `MediaStream` (for any size of the ring, of the buffer,
of a photo and of the longest recording, from `MicrophoneAssumption` and
`MediaStreamAssumption`):
- `UploadsAreWhole`: `UploadIsWhole`; `AcceptedWasSaved`: `AcceptedIsSaved`;
  `MediaTyped`: the types.

The invariant is `MediaInv`. `Hears` relates the microphone's offsets to the
count of what was read: the read offset is that count modulo the ring, and,
unless the ring was lapped, what is unread is less than a ring, so that the
difference of two offsets is the number of unread blocks although a full ring
looks like an empty one. `Line` says that the file the bridge writes, the chunks
on the connection, the chunk that waits to be sent and the buffer of the
microphone are one run of consecutive blocks (`Carries`, `RunOf`), from the first
to the last that was read, and that the end of the upload is only behind the
last of them; for a photo the same run ends at the offset of the upload loop.
`Recording` and `Finishing` say when the loop may take the capture for read:
only after a pass that found nothing (`Drained`), with the microphone stopped.
`Saved` says that what the bridge saved is whole for as long as its upload lasts.
A lost connection or a deadline empties the line and leaves the handler an orphan,
whose file nobody is told of.

The inductive invariants about the link, the streams, the approvals, the turns
and the uploads were checked by TLC on the instances of section 3 before they
were proved.

Every invariant and action property that a run checks is stated by a theorem.
Only model-checked: liveness (`EveryCallerAnswered`, `EventsArrive`,
`WrittenIsResolved`, `TurnsEnd`, `EveryWaitEnds`, `EveryUploadEnds`,
`EveryScanEnds`, `NobodyIsKept`, and of `TextsAreAgentCalls` that every call
settles), which is out of the proof system's reach, as are ENABLED, induction
over recursive definitions given as operators, and modules that declare
RECURSIVE operators.
The running sum is therefore a recursive function, and its equation is proved
(`RunningBytesEquation`) from a set-based induction lemma in `CommonLemmas`.

## 5. What the checks show

- The event history and its replay are right, at every boundary and for every
  limit. The store evicts only under pressure and never its newest event.
- A command takes effect once, unless the bridge restarted, the agent's call
  failed and the effect came all the same, or 256 newer commands were accepted
  in between.
- Whatever the order of responses, notifications, time-outs and awaiting code,
  a turn is published as started and completed once, the adapter knows the
  active turn, and an approval gets one decision, the one that is published. A
  turn ends even if nobody answers, as long as the app-server lives.
- Between restarts of the bridge, no interleaving of loss, backpressure,
  eviction, resync and reconnect makes the 3DS miss an event without a marker
  (`NoSilentGap`, `TransitIsContiguous`), and no event waits at the bridge for
  the next one to be pushed (`EventsArrive`).
- Frames of abandoned connections do no harm: acknowledgements are true on
  whichever connection they arrive.
- The loops of the 3DS never take each other's answers, the rail marks the task
  that is open, and no wait is endless.
- The agent screen shows the open task; no command, recording or approval
  reaches a task the user did not mean. A gives no approval that is younger than
  450 ms, and one that was not on the screen for as long only if a photo's
  screens or the keyboard covered it; that this happens is a finding
  (`view_unseen`).
- An upload that is saved is whole and in order unless the microphone's ring was
  lapped, and no upload lasts for ever.
- A code is worth one key; a 3DS believes it is paired only with a machine that
  knows it. A running bridge refuses the next request and the next hello of a
  revoked key, unless the revocation was written between its read or write of the
  file and the stamp it took; it does not refuse the commands of a pushed link
  that is open (`pairing_revoked`).
- The relay pairs two that are alive whenever it has them, loses none of its
  sockets, and a slot of the tunnel neither doubles nor dies.

What the models show without any document saying otherwise, so that no run
refutes anything: after the app-server has exited, an
approval that was pending makes its timer, or the shutdown, throw where nobody
catches (`Expire`, `Shutdown`: `bridge = "crashed"`), and a session keeps the
turn it had. A thread/resume response handled after a turn/completed of the
same chunk leaves an idle session shown as working (`GoOnOpened`). A task that
is open and comes back into the list may be marked unread. With an approval and
a transcript on the screen, B cancels the transcript although the bar says
Decline (`main.c:2773`, `ui.c:1581`). A transcript is offered again when its
task is opened again. A foreign QR code that is decoded first hides ours as long
as both are in the picture (`qr_scanner.c:65`). START leaves a recording open
(`main.c:2653`). `closeBoth()` is not called for a client that closed between its
pairing and `connected`; its uplink is ended by the pipe, or by the bridge's
server. One reset of a socket that waits ends the relay.

## 6. Where code and documents disagree

Three runs are expected to find a violation.

`push_ping`: `pump_push()` marks the pending
command as sent whenever *any* output completes in the ready phase
(`network.c:1540`). A command queued while a ping is in the buffer is not
written as long as the connection lasts, against `PROTOCOL.md:228`.
`WrittenIsResolved` is the strongest variant that holds: it excuses exactly a
command marked as sent but never written.

`view_unseen`: the loops of the photo's review and upload (`main.c:2341-2356`,
`2384-2428`) read the link under `UI_SCREEN_PHOTO`, and an approval is armed
450 ms after it arrived (`main.c:1668`, `2700-2708`), not after it was drawn. One
that arrives there is armed when the agent screen returns, and an A that was
meant for the photo gives it, against `main.c:101-104` ("An approval must not be
answerable by a keypress that was already on its way to something else, so A is
ignored for a moment after the request appears"). `ApprovalsAreReadFirst` is the
strongest variant that holds.

`pairing_revoked`: `push-server.ts` checks the key of a link in `#handleHello`
(179) only; `#handleCommand` (230-288) does not, and nothing closes the link of
a device that is revoked. As long as it stays connected, a revoked 3DS goes on
sending texts, interrupts and approvals, and receives events, against
`HARDWARE_TEST_CHECKLIST.md:134-137` ("Confirm the handheld is refused on its
next action **without restarting the bridge**") and `PROTOCOL.md:193-195` ("It
takes effect on a running bridge without a restart"). `AdmittedIsListed` is what
holds.

Others are visible in the models, which follow the code; a run about them would
only restate one line of it:

- `push_extract_frame()` looks for `"type":"error"` anywhere in a frame
  (`network.c:1193`) and takes a pushed event of type `error` for the rejection
  of the pending command (`PROTOCOL.md:229`).
- After a restart of the bridge a cursor is refused only while it is ahead of
  the new log (`event-store.ts:87`). Once the new log has grown to it, the
  replay continues behind it and the first events of the new log are skipped
  without a marker (`HARDWARE_TEST_CHECKLIST.md:330`).
- The registry is in memory (`server.ts:693`), so a command accepted before a
  restart runs again when it is repeated after it (`PROTOCOL.md:94`).
- `update_touch()` clears `touch_armed` on the lift (`main.c:373`) before the
  loop asks whether the lift ends a recording (`main.c:2647`), so that lifting
  the stylus never does (`HARDWARE_TEST_CHECKLIST.md:177`).
- `main.c:597` says that the bridge orders its tasks by recency. It does so when
  it starts; tasks it starts later come last, so that with six or more of them
  the one just started is not among the six that are listed.
- `redeem()` and `#touch()` write the devices in memory (`pairing.ts:230`,
  `261-264`): a device that another process revoked since they were read comes
  back (`PROTOCOL.md:193`). `AdmittedIsListed` holds because the file lists it
  again.
- The stamp is taken after the file was read or written (`pairing.ts:278-279`,
  `306-308`). A revocation that is written in between is taken for what the
  bridge knows, and the device stays admitted until the file changes again
  (`PROTOCOL.md:193`); `overtaken` marks exactly these.

## 7. What is not modelled

- The fake agent, a script for development and tests.
- Text and pixels: the events that change only what is read, layout, drawing,
  scrolling, QR encoding and decoding, the camera's picture, taking a photo.
- The byte level of every protocol: split and coalesced chunks, malformed and
  oversized lines and bodies, partial writes, WAV and image formats, HTTP
  headers, the JSON-RPC handshake, and the relay's greetings with a wrong token.
- The transcription process with its time-out and files, the development routes
  of the HTTP API, the rate limit of pairing attempts and the limits of names.
- How long things take: retry delays, back-off and deadlines are timers that may
  fire whenever they are armed.
- A pipe of the relay that pauses a fast sender.
- Sleep and the HOME menu of the console, except as its being switched off.
- A device file that is read while it is half-written.
- Command-line options.
