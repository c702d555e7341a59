----------------------------- MODULE RelayTunnel -----------------------------
(***************************************************************************)
(* One channel of the self-hosted relay (Relay) with the bridge's reverse  *)
(* tunnel (bridge/src/reverse-tunnel.ts), the 3DS's connections to the     *)
(* relay and the tunnel's connections to the bridge's own server.          *)
(*                                                                         *)
(* A slot of the tunnel keeps one uplink to the relay; each attempt to     *)
(* connect is one of Dials, and has a relay socket at the tunnel (near),   *)
(* its other end at the relay (far), a socket to the local server (local)  *)
(* and lines and data in transit.  A connection of the 3DS is one of       *)
(* Clients.                                                                *)
(*                                                                         *)
(* A socket that is destroyed is closed by a later event.  A stream whose  *)
(* data listener was taken off goes on flowing: what comes is lost.        *)
(***************************************************************************)
EXTENDS Relay, FiniteSets

CONSTANTS
    Clients,     \* connections of the 3DS, each made once
    PoolSize,    \* uplinks of the channel: httpPoolSize, or one for push
    MaxPools,    \* bound: times the tunnel is started
    MaxDials,    \* bound: connection attempts of the tunnel
    MaxChunks,   \* bound: chunks the 3DS sends on a connection
    MaxFaults    \* bound: connections cut, and stops of the relay

ASSUME TunnelAssumption ==
    /\ PoolSize \in Nat \ {0} /\ MaxPools \in Nat /\ MaxDials \in Nat
    /\ MaxChunks \in Nat /\ MaxFaults \in Nat

VARIABLES
    relay,    \* the relay's queues and pairs
    slot,     \* the slots of all tunnels started
    pools,    \* how often the tunnel was started
    dials,    \* how many attempts were made
    uplink,   \* the attempts
    client,   \* the 3DS's connections
    faults

vars == <<relay, slot, pools, dials, uplink, client, faults>>

Dials == 1..MaxDials
Slots == 1..(MaxPools * PoolSize)

Line(type) == [type |-> type]
Data(from, n) == [type |-> "data", from |-> from, n |-> n]

NoUplink == [slot |-> 0, near |-> "none", local |-> "none", far |-> "none",
             up |-> <<>>, down |-> <<>>, served |-> <<>>, said |-> 0]
NoClient == [here |-> "none", there |-> "none", up |-> <<>>, down |-> <<>>,
             sent |-> 0, heard |-> <<>>]
NoSlot == [stopped |-> TRUE, timers |-> 0, dial |-> 0]

Init ==
    /\ relay = NewRelay
    /\ slot = [s \in Slots |-> NoSlot] /\ pools = 0
    /\ dials = 0 /\ uplink = [i \in Dials |-> NoUplink]
    /\ client = [c \in Clients |-> NoClient]
    /\ faults = 0

Gone(state) == state \in {"ending", "closed"}
Closing(u) == "ending" \in {u.near, u.local}

(* destroy(): what a socket has not read is lost, what it wrote is not.      *)
NearGone(u) == [u EXCEPT !.near = Destroyed(@), !.down = <<>>]
FarGone(u) == [u EXCEPT !.far = Destroyed(@), !.up = <<>>]
LocalGone(u) == [u EXCEPT !.local = Destroyed(@)]
ThereGone(k) == [k EXCEPT !.there = Destroyed(@), !.up = <<>>]

(* write(), lost if the other end does not read any more. *)
Sent(queue, reader, line) == IF Gone(reader) THEN queue ELSE Append(queue, line)

-----------------------------------------------------------------------------
(* The reverse tunnel.                                                      *)

(* #connectRelay *)
Dialling(s) == [NoUplink EXCEPT !.slot = s, !.near = "dialling"]

(* start(): new slots, each of which connects at once. *)
StartTunnel ==
    /\ pools < MaxPools /\ dials + PoolSize <= MaxDials
    /\ \A s \in Slots : slot[s].stopped
    /\ LET Number(s) == s - pools * PoolSize
           new == {s \in Slots : Number(s) \in 1..PoolSize}
       IN  /\ slot' = [s \in Slots |->
                 IF s \in new
                 THEN [stopped |-> FALSE, timers |-> 0, dial |-> dials + Number(s)]
                 ELSE slot[s]]
           /\ uplink' = [i \in Dials |->
                 IF i \in (dials + 1)..(dials + PoolSize)
                 THEN Dialling(pools * PoolSize + i - dials)
                 ELSE uplink[i]]
    /\ pools' = pools + 1 /\ dials' = dials + PoolSize
    /\ UNCHANGED <<relay, client, faults>>

(* close() *)
CloseTunnel ==
    /\ \E s \in Slots : ~slot[s].stopped
    /\ slot' = [s \in Slots |->
          [slot[s] EXCEPT !.stopped = TRUE, !.timers = 0]]
    /\ uplink' = [i \in Dials |->
          IF \E s \in Slots : ~slot[s].stopped /\ slot[s].dial = i
          THEN NearGone(LocalGone(uplink[i])) ELSE uplink[i]]
    /\ UNCHANGED <<relay, pools, dials, client, faults>>

(* A faulty #scheduleReconnect: each of a slot's two closes starts a timer. *)
ScheduleTwice(sl) ==
    IF sl.stopped THEN sl ELSE [sl EXCEPT !.dial = 0, !.timers = @ + 1]

(* #scheduleReconnect *)
ScheduleReconnect(sl) ==
    IF sl.stopped \/ sl.timers > 0 THEN sl
    ELSE [sl EXCEPT !.dial = 0, !.timers = @ + 1]

(* A slot's timer runs for 250 ms at least; the close events of sockets     *)
(* that were destroyed together come before.                                *)
CloseDue(s) == \E i \in Dials : uplink[i].slot = s /\ Closing(uplink[i])

Redial(s) ==
    /\ slot[s].timers > 0 /\ ~CloseDue(s) /\ dials < MaxDials
    /\ slot' = [slot EXCEPT ![s].timers = @ - 1, ![s].dial = dials + 1]
    /\ uplink' = [uplink EXCEPT ![dials + 1] = Dialling(s)]
    /\ dials' = dials + 1
    /\ UNCHANGED <<relay, pools, client, faults>>

UplinkUnchanged == UNCHANGED <<relay, slot, pools, dials, client, faults>>

Connect(i) ==
    /\ uplink[i].near = "dialling" /\ ~relay.closed
    /\ uplink' = [uplink EXCEPT ![i].near = "offered", ![i].far = "greeting",
                                ![i].up = <<Line("greeting")>>]
    /\ UplinkUnchanged

ConnectFails(i) ==
    /\ uplink[i].near = "dialling" /\ relay.closed
    /\ uplink' = [uplink EXCEPT ![i] = NearGone(@)]
    /\ UplinkUnchanged

ReadReady(i) ==
    /\ uplink[i].near = "offered" /\ uplink[i].down # <<>>
    /\ uplink' = [uplink EXCEPT ![i].near = "opening", ![i].local = "connecting",
                                ![i].down = Tail(@)]
    /\ UplinkUnchanged

(* #connectLocal: the local socket is connected, even if the relay's has    *)
(* been destroyed.  Between "ready" and the pipe nobody listened: what came *)
(* in between is lost.                                                      *)
LocalConnect(i) ==
    /\ uplink[i].local = "connecting"
    /\ uplink' = [uplink EXCEPT ![i].local = "open", ![i].down = <<>>,
          ![i].near = IF @ = "opening" THEN "piping" ELSE @,
          ![i].up = IF uplink[i].near = "opening"
                    THEN Sent(@, uplink[i].far, Line("connected")) ELSE @]
    /\ UplinkUnchanged

LocalFails(i) ==
    /\ uplink[i].local = "connecting" /\ faults < MaxFaults
    /\ uplink' = [uplink EXCEPT ![i] = NearGone(LocalGone(@))]
    /\ faults' = faults + 1
    /\ UNCHANGED <<relay, slot, pools, dials, client>>

(* The two pipes, with a server that answers what it is sent. *)
PipeToServer(i) ==
    /\ uplink[i].near = "piping" /\ uplink[i].local = "open"
    /\ uplink[i].down # <<>>
    /\ uplink' = [uplink EXCEPT ![i].served = Append(@, Head(uplink[i].down)),
                                ![i].down = Tail(@)]
    /\ UplinkUnchanged

ServerAnswers(i) ==
    /\ uplink[i].near = "piping" /\ uplink[i].local = "open"
    /\ uplink[i].said < Len(uplink[i].served)
    /\ uplink' = [uplink EXCEPT ![i].said = @ + 1,
          ![i].up = Sent(@, uplink[i].far, Data(i, uplink[i].said + 1))]
    /\ UplinkUnchanged

(* The bridge's servers end a connection that is idle: headersTimeout and   *)
(* keepAliveTimeout in server.ts, clientIdleTimeoutMs in push-server.ts.    *)
ServerHangsUp(i) ==
    /\ uplink[i].local = "open" /\ uplink[i].said = Len(uplink[i].served)
    /\ uplink' = [uplink EXCEPT ![i] = LocalGone(@)]
    /\ UplinkUnchanged

(* The other end is gone and everything it sent has been read. *)
NearEnds(i) ==
    /\ uplink[i].near \in {"offered", "opening", "piping"}
    /\ Gone(uplink[i].far) /\ uplink[i].down = <<>>
    /\ uplink' = [uplink EXCEPT ![i] = NearGone(@)]
    /\ UplinkUnchanged

(* The close events.  Each closes the other socket, and each schedules.     *)
NearCloses(i) ==
    /\ uplink[i].near = "ending"
    /\ uplink' = [uplink EXCEPT ![i] = [LocalGone(@) EXCEPT !.near = "closed"]]
    /\ slot' = [slot EXCEPT ![uplink[i].slot] = ScheduleReconnect(@)]
    /\ UNCHANGED <<relay, pools, dials, client, faults>>

(* A faulty close: the relay's socket is left open. *)
LocalClosesAlone(i) ==
    /\ uplink[i].local = "ending"
    /\ uplink' = [uplink EXCEPT ![i].local = "closed"]
    /\ slot' = [slot EXCEPT ![uplink[i].slot] = ScheduleReconnect(@)]
    /\ UNCHANGED <<relay, pools, dials, client, faults>>

LocalCloses(i) ==
    /\ uplink[i].local = "ending"
    /\ uplink' = [uplink EXCEPT ![i] = [NearGone(@) EXCEPT !.local = "closed"]]
    /\ slot' = [slot EXCEPT ![uplink[i].slot] = ScheduleReconnect(@)]
    /\ UNCHANGED <<relay, pools, dials, client, faults>>

-----------------------------------------------------------------------------
(* The relay.                                                               *)

LiveUplinks(us) == {i \in Dials : us[i].far = "open"}
LiveClients(cs) == {c \in Clients : cs[c].there = "open"}

(* "ready" is written to an uplink that got a partner. *)
Informed(us, r) ==
    [i \in Dials |-> IF \E p \in r.pairing \ relay.pairing : p[1] = i
                     THEN [us[i] EXCEPT !.down = Sent(@, us[i].near, Line("ready"))]
                     ELSE us[i]]

(* #acceptUplink, with the token the two share. *)
ReadGreeting(i) ==
    /\ uplink[i].far = "greeting" /\ uplink[i].up # <<>>
    /\ LET greeted == [uplink EXCEPT ![i].up = Tail(@),
              ![i].far = IF Refuses(relay, relay.uplinks) THEN "ending" ELSE "open"]
           queued  == QueueUplink(relay, i, LiveUplinks(greeted), LiveClients(client))
       IN  IF Refuses(relay, relay.uplinks)
           THEN uplink' = greeted /\ UNCHANGED relay
           ELSE uplink' = Informed(greeted, queued) /\ relay' = queued
    /\ UNCHANGED <<slot, pools, dials, client, faults>>

(* A connection of the 3DS is accepted. *)
AcceptClient(c) ==
    /\ client[c].here = "none" /\ ~relay.closed
    /\ LET accepted == [client EXCEPT ![c].here = "open",
              ![c].there = IF Refuses(relay, relay.clients) THEN "ending" ELSE "open"]
           queued   == QueueClient(relay, c, LiveUplinks(uplink), LiveClients(accepted))
       IN  /\ client' = accepted
           /\ IF Refuses(relay, relay.clients)
              THEN UNCHANGED <<relay, uplink>>
              ELSE relay' = queued /\ uplink' = Informed(uplink, queued)
    /\ UNCHANGED <<slot, pools, dials, faults>>

(* The timers of a greeting and of the two queues. *)
UplinkTimeout(i) ==
    /\ uplink[i].far = "greeting" \/ i \in ToSet(relay.uplinks)
    /\ relay' = DropUplink(relay, i)
    /\ uplink' = [uplink EXCEPT ![i] = FarGone(@)]
    /\ UNCHANGED <<slot, pools, dials, client, faults>>

ClientTimeout(c) ==
    /\ c \in ToSet(relay.clients)
    /\ relay' = DropClient(relay, c)
    /\ client' = [client EXCEPT ![c] = ThereGone(@)]
    /\ UNCHANGED <<slot, pools, dials, uplink, faults>>

(* #waitForConnected *)
ReadConnected(i, c) ==
    /\ <<i, c>> \in relay.pairing
    /\ uplink[i].far = "open" /\ uplink[i].up # <<>>
    /\ relay' = Activate(relay, <<i, c>>)
    /\ uplink' = [uplink EXCEPT ![i].up = Tail(@)]
    /\ UNCHANGED <<slot, pools, dials, client, faults>>

ActivationTimeout(i, c) ==
    /\ <<i, c>> \in relay.pairing
    /\ relay' = [relay EXCEPT !.pairing = @ \ {<<i, c>>}]
    /\ uplink' = [uplink EXCEPT ![i] = FarGone(@)]
    /\ client' = [client EXCEPT ![c] = ThereGone(@)]
    /\ UNCHANGED <<slot, pools, dials, faults>>

(* A faulty pipe: the client's bytes do not wait for "connected". *)
PipeUpEarly(i, c) ==
    /\ <<i, c>> \in relay.pairing \cup relay.piping
    /\ uplink[i].far = "open" /\ client[c].there = "open" /\ client[c].up # <<>>
    /\ uplink' = [uplink EXCEPT
          ![i].down = Sent(@, uplink[i].near, Head(client[c].up))]
    /\ client' = [client EXCEPT ![c].up = Tail(@)]
    /\ UNCHANGED <<relay, slot, pools, dials, faults>>

(* The two pipes.  What is piped to a socket that is gone is lost. *)
PipeUp(i, c) ==
    /\ <<i, c>> \in relay.piping
    /\ uplink[i].far = "open" /\ client[c].there = "open" /\ client[c].up # <<>>
    /\ uplink' = [uplink EXCEPT
          ![i].down = Sent(@, uplink[i].near, Head(client[c].up))]
    /\ client' = [client EXCEPT ![c].up = Tail(@)]
    /\ UNCHANGED <<relay, slot, pools, dials, faults>>

PipeDown(i, c) ==
    /\ <<i, c>> \in relay.piping
    /\ uplink[i].far = "open" /\ uplink[i].up # <<>>
    /\ uplink' = [uplink EXCEPT ![i].up = Tail(@)]
    /\ client' = IF client[c].there = "open"
                 THEN [client EXCEPT
                         ![c].down = Sent(@, client[c].here, Head(uplink[i].up))]
                 ELSE client
    /\ UNCHANGED <<relay, slot, pools, dials, faults>>

(* The other end is gone and everything it sent has been read.  A client    *)
(* that waits is not read.                                                  *)
FarEnds(i) ==
    /\ uplink[i].far \in {"greeting", "open"}
    /\ Gone(uplink[i].near) /\ uplink[i].up = <<>>
    /\ uplink' = [uplink EXCEPT ![i] = FarGone(@)]
    /\ UplinkUnchanged

ClientEnds(c) ==
    /\ client[c].there = "open" /\ client[c].here = "closed" /\ client[c].up = <<>>
    /\ client' = [client EXCEPT ![c] = ThereGone(@)]
    /\ UNCHANGED <<relay, slot, pools, dials, uplink, faults>>

(* The close events: a socket that waits leaves its queue, one that is      *)
(* piped takes its partner along; one of a pair that waits for "connected"  *)
(* does neither.                                                            *)
FarCloses(i) ==
    /\ uplink[i].far = "ending"
    /\ LET partners == {c \in Clients : <<i, c>> \in relay.piping}
       IN  /\ relay' = [DropUplink(relay, i) EXCEPT !.piping = @ \ ({i} \X partners)]
           /\ client' = [c \in Clients |->
                 IF c \in partners
                 THEN ThereGone(client[c]) ELSE client[c]]
    /\ uplink' = [uplink EXCEPT ![i].far = "closed"]
    /\ UNCHANGED <<slot, pools, dials, faults>>

ClientCloses(c) ==
    /\ client[c].there = "ending"
    /\ LET partners == {i \in Dials : <<i, c>> \in relay.piping}
       IN  /\ relay' = [DropClient(relay, c) EXCEPT !.piping = @ \ (partners \X {c})]
           /\ uplink' = [i \in Dials |->
                 IF i \in partners
                 THEN FarGone(uplink[i]) ELSE uplink[i]]
    /\ client' = [client EXCEPT ![c].there = "closed"]
    /\ UNCHANGED <<slot, pools, dials, faults>>

(* close(), by a signal.  The process ends when every socket is closed, and *)
(* may then be started again.                                               *)
StopRelay ==
    /\ ~relay.closed /\ faults < MaxFaults
    /\ LET us == ToSet(relay.uplinks) \cup {p[1] : p \in relay.piping}
           cs == ToSet(relay.clients) \cup {p[2] : p \in relay.piping}
       IN  /\ uplink' = [i \in Dials |->
                 IF i \in us THEN FarGone(uplink[i]) ELSE uplink[i]]
           /\ client' = [c \in Clients |->
                 IF c \in cs THEN ThereGone(client[c]) ELSE client[c]]
    /\ relay' = CloseService(relay)
    /\ faults' = faults + 1
    /\ UNCHANGED <<slot, pools, dials>>

RelayIsQuiet ==
    /\ \A i \in Dials : uplink[i].far \in {"none", "closed"}
    /\ \A c \in Clients : client[c].there \in {"none", "closed"}

StartRelay ==
    /\ relay.closed /\ RelayIsQuiet
    /\ relay' = NewRelay
    /\ UNCHANGED <<slot, pools, dials, uplink, client, faults>>

(* A connection is reset.  Where the relay pipes, the error closes both     *)
(* sockets; a socket that greets, waits or is paired has no error listener, *)
(* and its error ends the process with every socket it has.                 *)
ResetNear(i) ==
    /\ uplink[i].near \in {"offered", "opening", "piping"} /\ faults < MaxFaults
    /\ uplink' = [uplink EXCEPT ![i] = NearGone(@)]
    /\ faults' = faults + 1
    /\ UNCHANGED <<relay, slot, pools, dials, client>>

ResetPiped(i, c) ==
    /\ <<i, c>> \in relay.piping /\ faults < MaxFaults
    /\ relay' = [relay EXCEPT !.piping = @ \ {<<i, c>>}]
    /\ uplink' = [uplink EXCEPT ![i] = FarGone(@)]
    /\ client' = [client EXCEPT ![c] = ThereGone(@)]
    /\ faults' = faults + 1
    /\ UNCHANGED <<slot, pools, dials>>

ResetWaiting ==
    /\ faults < MaxFaults
    /\ \/ \E i \in Dials : /\ uplink[i].far \in {"greeting", "open"}
                           /\ \A c \in Clients : <<i, c>> \notin relay.piping
       \/ \E c \in Clients : /\ client[c].there = "open"
                             /\ \A i \in Dials : <<i, c>> \notin relay.piping
    /\ relay' = [NewRelay EXCEPT !.closed = TRUE]
    /\ uplink' = [i \in Dials |-> [FarGone(uplink[i]) EXCEPT
                     !.far = IF @ = "ending" THEN "closed" ELSE @]]
    /\ client' = [c \in Clients |-> [ThereGone(client[c]) EXCEPT
                     !.there = IF @ = "ending" THEN "closed" ELSE @]]
    /\ faults' = faults + 1
    /\ UNCHANGED <<slot, pools, dials>>

-----------------------------------------------------------------------------
(* The 3DS, which may send before it is paired and leave at any time.       *)
ClientUnchanged == UNCHANGED <<relay, slot, pools, dials, uplink, faults>>

ClientSends(c) ==
    /\ client[c].here = "open" /\ client[c].there = "open"
    /\ client[c].sent < MaxChunks
    /\ client' = [client EXCEPT ![c].sent = @ + 1,
                                ![c].up = Append(@, Data(c, client[c].sent + 1))]
    /\ ClientUnchanged

ClientReads(c) ==
    /\ client[c].here = "open" /\ client[c].down # <<>>
    /\ client' = [client EXCEPT ![c].heard = Append(@, Head(client[c].down)),
                                ![c].down = Tail(@)]
    /\ ClientUnchanged

ClientLeaves(c) ==
    /\ client[c].here = "open"
    /\ client' = [client EXCEPT ![c].here = "closed", ![c].down = <<>>]
    /\ ClientUnchanged

ClientSeesEnd(c) ==
    /\ client[c].here = "open" /\ Gone(client[c].there) /\ client[c].down = <<>>
    /\ client' = [client EXCEPT ![c].here = "closed"]
    /\ ClientUnchanged

-----------------------------------------------------------------------------
(* What the tunnel and its server do about an attempt, and what the relay   *)
(* does, without anything that must go wrong.                               *)
TunnelStep(i) ==
    \/ Connect(i) \/ ConnectFails(i) \/ ReadReady(i) \/ LocalConnect(i)
    \/ PipeToServer(i) \/ ServerAnswers(i)
    \/ NearEnds(i) \/ NearCloses(i) \/ LocalCloses(i)

UplinkStep(i) ==
    \/ ReadGreeting(i) \/ FarEnds(i) \/ FarCloses(i)
    \/ \E c \in Clients : ReadConnected(i, c) \/ PipeUp(i, c) \/ PipeDown(i, c)

ClientStep(c) == ClientEnds(c) \/ ClientCloses(c)

Timeouts ==
    \/ \E i \in Dials : UplinkTimeout(i)
    \/ \E c \in Clients : ClientTimeout(c)
    \/ \E i \in Dials, c \in Clients : ActivationTimeout(i, c)

Faults ==
    \/ StopRelay \/ ResetWaiting
    \/ \E i \in Dials : LocalFails(i) \/ ResetNear(i)
    \/ \E i \in Dials, c \in Clients : ResetPiped(i, c)

Handheld ==
    \E c \in Clients : \/ AcceptClient(c) \/ ClientSends(c) \/ ClientReads(c)
                       \/ ClientLeaves(c) \/ ClientSeesEnd(c)

Next ==
    \/ StartTunnel \/ CloseTunnel \/ StartRelay
    \/ \E s \in Slots : Redial(s)
    \/ \E i \in Dials : TunnelStep(i) \/ UplinkStep(i) \/ ServerHangsUp(i)
    \/ \E c \in Clients : ClientStep(c)
    \/ Timeouts \/ Faults \/ Handheld

(* Both event loops serve every socket, timers expire, and the bridge's     *)
(* servers end a connection on which nothing comes.                         *)
Fairness ==
    /\ \A i \in Dials : /\ WF_vars(TunnelStep(i)) /\ WF_vars(UplinkStep(i))
                        /\ WF_vars(ServerHangsUp(i)) /\ WF_vars(UplinkTimeout(i))
    /\ \A c \in Clients : /\ WF_vars(ClientStep(c)) /\ WF_vars(ClientTimeout(c))
                          /\ WF_vars(ClientReads(c) \/ ClientSeesEnd(c))
    /\ \A i \in Dials, c \in Clients : WF_vars(ActivationTimeout(i, c))
    /\ \A s \in Slots : WF_vars(Redial(s))

Spec == Init /\ [][Next]_vars /\ Fairness

-----------------------------------------------------------------------------
IsFrom(chunks, who) == chunks = [n \in 1..Len(chunks) |-> Data(who, n)]

(* "It pairs one public byte stream with one authenticated outbound bridge   *)
(* tunnel" (PROTOCOL.md): the server reads the beginning of what one client  *)
(* sent, from its first byte and without the tunnel's own lines, nobody else *)
(* reads it, and that client hears the beginning of what this server said.   *)
StreamsArePaired ==
    /\ \A i \in Dials : uplink[i].served # <<>> =>
          \E c \in Clients :
              /\ IsFrom(uplink[i].served, c)
              /\ \A j \in Dials \ {i} : \A n \in 1..Len(uplink[j].served) :
                     uplink[j].served[n].from # c
    /\ \A c \in Clients : client[c].heard # <<>> =>
          \E i \in Dials : /\ IsFrom(client[c].heard, i)
                           /\ IsFrom(uplink[i].served, c)

(* Nobody waits for somebody who waits: a client and an uplink that are both *)
(* alive are never both in their queues.                                     *)
NobodyWaitsForAWaiter ==
    \/ ToSet(relay.uplinks) \cap LiveUplinks(uplink) = {}
    \/ ToSet(relay.clients) \cap LiveClients(client) = {}

(* Every open socket of the relay has somebody who will close it: a queue or *)
(* a pair with its timer, or pipes with a partner that is not closed, unless *)
(* the partner went before the pipes were laid.                              *)
NoSocketIsForgotten ==
    /\ \A i \in Dials : uplink[i].far = "open" =>
          \/ i \in ToSet(relay.uplinks)
          \/ \E c \in Clients : <<i, c>> \in relay.pairing \cup relay.piping
    /\ \A c \in Clients : client[c].there = "open" =>
          \/ c \in ToSet(relay.clients)
          \/ \E i \in Dials : \/ <<i, c>> \in relay.pairing
                              \/ <<i, c>> \in relay.piping /\ uplink[i].far # "closed"

Live(u) == \/ u.near \in {"dialling", "offered", "opening", "piping"}
           \/ u.local \in {"connecting", "open"}

Alive(s) == {i \in Dials : uplink[i].slot = s /\ Live(uplink[i])}
Occupied(s) ==
    {i \in Dials : uplink[i].slot = s /\ (Live(uplink[i]) \/ Closing(uplink[i]))}

(* "The bridge keeps four bounded HTTP/media uplinks and one pushed control  *)
(* uplink available, replenishing each" (bridge/README.md): however its      *)
(* sockets and timers end, a slot has the one connection close() knows, or   *)
(* the one timer that will make it, never both and never neither; a slot     *)
(* that was stopped has nothing that is alive.                               *)
SlotsHoldOne ==
    \A s \in Slots :
        IF slot[s].stopped THEN slot[s].timers = 0 /\ Alive(s) = {}
        ELSE \/ slot[s].timers = 1 /\ Alive(s) = {}
             \/ slot[s].timers = 0 /\ Occupied(s) = {slot[s].dial}

(* Nobody is kept.  "Disconnect/reconnect the 3DS network. Require fresh     *)
(* tunnels without restarting the relay" (HARDWARE_TEST_CHECKLIST.md): the   *)
(* uplink of a 3DS that has gone is given up, so that its slot can connect   *)
(* again; and a 3DS that connects is served by the bridge or released.       *)
NobodyIsKept ==
    /\ \A i \in Dials, c \in Clients :
          <<i, c>> \in relay.pairing \cup relay.piping /\ client[c].here = "closed"
              ~> uplink[i].near = "closed"
    /\ \A c \in Clients :
          client[c].here = "open" ~> \/ client[c].here = "closed"
                                     \/ \E i \in Dials : <<i, c>> \in relay.piping
=============================================================================
